---- MODULE Spec2Model ----
(***************************************************************************)
(* A state-machine model of the storefront in main.py: the User, Category  *)
(* and Product tables, the per-client Flask session, and one action per    *)
(* request handler.  A handler that reads the database and later commits   *)
(* (register) is split at the commit, since the server handles requests    *)
(* concurrently; the other handlers read or write the database once.       *)
(* The profile columns (first_name, last_name, loyalty_points) and the      *)
(* tables no route touches (Review, Order, OrderDetail, Discount) are left  *)
(* out.  A definition marked "fault:" is a faulty variant of the definition *)
(* that follows it, kept to show that a property depends on that code.      *)
(*                                                                         *)
(* Encodings.  A form or URL field that is absent is the string NONE.  A   *)
(* nullable integer column or integer argument is <<>> (NULL / None) or    *)
(* <<n>>.  A password or password hash is a sequence of tokens, so that a  *)
(* hash string can itself be submitted as a password.                      *)
(***************************************************************************)
EXTENDS Integers, Sequences, FiniteSets, TLC

VARIABLES
    users,       \* the User table, a sequence of rows ordered by id
    products,    \* the Product table, a sequence of rows ordered by id
    categories,  \* the set of ids of the Category table
    session,     \* per client: the signed session cookie, a function on a subset of {"user_id","cart"}
    pending,     \* register requests between their lookup and their commit
    now,         \* the value datetime.utcnow() returns
    loggedOut,   \* history: the clients whose last logout was not followed by a successful login
    resp         \* the response of the last request handled (or the last step taken)

vars == <<users, products, categories, session, pending, now, loggedOut, resp>>

----------------------------------------------------------------------------
(* Bounds and input domains *)

MaxUsers == 3
MaxPending == 2
MaxTick == 1
MaxAdd == 1
BulkSize == 12

NONE == "NONE"
Null == <<>>
Some(v) == <<v>>

Clients == {"c1", "c2"}
Usernames == {"admin", "u1", "u2", NONE}
Emails == {"admin@example.com", "a@x.com", "b@x.com"}
RawPasswords == {<<"pw1">>, <<"pw2">>}
Salts == {"s1", "s2"}

----------------------------------------------------------------------------
(* werkzeug.security as main.py uses it.  The digest is an uninterpreted   *)
(* injective term over (salt, password).                                   *)

Digest(salt, password) == <<"H", salt>> \o password

GeneratePasswordHash(salt, password) == <<"scrypt", salt>> \o Digest(salt, password)

\* fault: a stored value equal to the submitted string is accepted
CheckPasswordHashPlain(pwhash, password) ==
    \/ pwhash = password
    \/ Len(pwhash) >= 3 /\ SubSeq(pwhash, 3, Len(pwhash)) = Digest(pwhash[2], password)

\* check_password_hash: the stored string must have the form method$salt$hash
\* and the hash must be the digest of the password under that salt
CheckPasswordHash(pwhash, password) ==
    /\ Len(pwhash) >= 3
    /\ pwhash[1] = "scrypt"
    /\ SubSeq(pwhash, 3, Len(pwhash)) = Digest(pwhash[2], password)

----------------------------------------------------------------------------
(* The User table *)

Range(s) == {s[i] : i \in DOMAIN s}

UserRow(id, username, email, password, is_admin) ==
    [id |-> id, username |-> username, email |-> email, password |-> password,
     is_admin |-> is_admin, last_login |-> Null]

\* fault: the columns without unique=True
UserConstraintsLax(table, row) == row.username # NONE /\ row.email # NONE

\* NOT NULL and UNIQUE constraints of the columns username and email
UserConstraintsOK(table, row) ==
    /\ row.username # NONE
    /\ row.email # NONE
    /\ \A u \in Range(table) : u.username # row.username /\ u.email # row.email

\* User.query.filter_by(email=...).first(): <<>> or <<row>>
FirstByEmail(table, email) ==
    LET hits == {i \in DOMAIN table : table[i].email = email}
    IN  IF hits = {} THEN <<>>
        ELSE <<table[CHOOSE i \in hits : \A j \in hits : i <= j]>>

\* User.query.get(id)
GetUser(table, id) == IF id \in DOMAIN table THEN <<table[id]>> ELSE <<>>

\* the startup block: create the administrator unless the email is present
SeedAdmin(table, salt) ==
    IF FirstByEmail(table, "admin@example.com") # <<>> THEN table
    ELSE LET row == UserRow(Len(table) + 1, "admin", "admin@example.com",
                            GeneratePasswordHash(salt, <<"admin123">>), TRUE)
         IN  IF UserConstraintsOK(table, row) THEN Append(table, row) ELSE table

----------------------------------------------------------------------------
(* Sessions and responses *)

EmptySession == [k \in {} |-> Null]

Pop(sess, key) == [k \in DOMAIN sess \ {key} |-> sess[k]]

Put(sess, key, val) == [k \in DOMAIN sess \cup {key} |-> IF k = key THEN val ELSE sess[k]]

\* what a handler returns: the status (with the redirect's target), the flashed
\* message, and the product ids and category ids handed to the template; the
\* client is named where the handler reads or writes the session
Response(client, route, method, status, flash, items, cats) ==
    [client |-> client, route |-> route, method |-> method, status |-> status, flash |-> flash,
     items |-> items, cats |-> cats]

Started == Response(NONE, "startup", NONE, NONE, NONE, <<>>, {})

----------------------------------------------------------------------------
(* The Product table and the queries over it *)

\* the form value of a checkbox or a field as Python's truth test sees it
Truthy(v) == v # NONE /\ v # ""

\* a numeric form or URL string as the integer the column or type=int takes
ToInt(v) ==
    IF v = "0" THEN Some(0) ELSE IF v = "1" THEN Some(1) ELSE IF v = "2" THEN Some(2)
    ELSE IF v = "3" THEN Some(3) ELSE IF v = "9" THEN Some(9) ELSE Null

ProductRow(id, form, at) ==
    [id |-> id, name |-> form.name, price |-> form.price,
     category_id |-> ToInt(form.category_id), is_active |-> Truthy(form.is_active),
     created_at |-> at]

\* NOT NULL on name and price; the foreign key on category_id where the
\* database enforces foreign keys (SQLite by default does not)
ProductConstraintsOK(row, cats, enforce) ==
    /\ row.name # NONE
    /\ row.price # NONE
    /\ (enforce /\ row.category_id # Null) => row.category_id[1] \in cats

\* the rows of a table as a query without ORDER BY scans them: in id
\* order, ascending or descending, the database's choice
Scan(table, ord) ==
    IF ord = "asc" THEN table ELSE [i \in 1..Len(table) |-> table[Len(table) + 1 - i]]

\* ORDER BY created_at DESC, rows of equal created_at in the database's order
RECURSIVE ByCreatedDesc(_, _)
ByCreatedDesc(S, ord) ==
    IF S = {} THEN <<>>
    ELSE LET f == CHOOSE p \in S : \A q \in S :
                      \/ p.created_at > q.created_at
                      \/ /\ p.created_at = q.created_at
                         /\ IF ord = "asc" THEN p.id <= q.id ELSE p.id >= q.id
         IN  <<f>> \o ByCreatedDesc(S \ {f}, ord)

Limit(rows, n) == SubSeq(rows, 1, IF Len(rows) < n THEN Len(rows) ELSE n)

Ids(rows) == [i \in DOMAIN rows |-> rows[i].id]

PerPage == 12
FeaturedLimit == 8
RelatedLimit == 4

\* query.paginate(page=page, per_page=12): not found for a page below 1 and
\* for an empty page other than the first
Paginate(rows, page, perPage) ==
    LET first == (page - 1) * perPage + 1
        last  == IF page * perPage < Len(rows) THEN page * perPage ELSE Len(rows)
        items == SubSeq(rows, first, last)
    IN  IF page < 1 THEN [found |-> FALSE, items |-> <<>>]
        ELSE IF items = <<>> /\ page # 1 THEN [found |-> FALSE, items |-> <<>>]
        ELSE [found |-> TRUE, items |-> items]

----------------------------------------------------------------------------
(* Startup *)

StartTime == BulkSize

\* a table of n active products of category 1, created two at a time at the
\* times 1, 2, ... before StartTime
Bulk(n) ==
    [i \in 1..n |-> [id |-> i, name |-> "card", price |-> "10", category_id |-> Some(1),
                     is_active |-> TRUE, created_at |-> (i + 1) \div 2]]

\* the module's start on an empty database
Init ==
    /\ users = SeedAdmin(<<>>, "s1")
    /\ products = <<>>
    /\ categories = {1, 2}
    /\ session = [c \in Clients |-> EmptySession]
    /\ pending = {}
    /\ now = StartTime
    /\ loggedOut = {}
    /\ resp = Started

\* the module's start on a database an earlier run left, holding the
\* administrator and one registered user; the client's session may carry a
\* cart (no handler of main.py writes one, logout and the templates read it)
InitSession ==
    /\ \E salt \in Salts :
          users = Append(SeedAdmin(<<>>, "s1"),
                         UserRow(2, "u1", "a@x.com", GeneratePasswordHash(salt, <<"pw1">>), FALSE))
    /\ products = <<>>
    /\ categories = {1, 2}
    /\ session \in [Clients -> {EmptySession, [cart |-> <<"item">>]}]
    /\ pending = {}
    /\ now = StartTime
    /\ loggedOut = {}
    /\ resp = Started

\* the module's start on a database an earlier run left: the administrator,
\* and no product or the products an administrator added before
InitCatalog ==
    /\ users = SeedAdmin(<<>>, "s1")
    /\ \/ categories = {} /\ products = <<>>
       \/ categories = {1, 2} /\ products \in {<<>>, Bulk(BulkSize)}
    /\ session = [c \in Clients |-> EmptySession]
    /\ pending = {}
    /\ now = StartTime
    /\ loggedOut = {}
    /\ resp = Started

\* the number of products the database held at startup
Preloaded(table) == Cardinality({p \in Range(table) : p.created_at < StartTime})

Tick ==
    /\ now < StartTime + MaxTick
    /\ now' = now + 1
    /\ UNCHANGED <<users, products, categories, session, pending, loggedOut, resp>>

Restart ==
    /\ \E salt \in Salts : users' = SeedAdmin(users, salt)
    /\ pending' = {}
    /\ resp' = Started
    /\ UNCHANGED <<products, categories, session, now, loggedOut>>

----------------------------------------------------------------------------
(* register *)

RegisterGet ==
    /\ resp' = Response(NONE, "register", "GET", "200", NONE, <<>>, {})
    /\ UNCHANGED <<users, products, categories, session, pending, now, loggedOut>>

\* lines 167-189: the form, the two checks and the construction of new_user
RegisterCheck(username, email, password, confirm, salt) ==
    IF password # confirm
    THEN /\ resp' = Response(NONE, "register", "POST", "302:register", "mismatch", <<>>, {})
         /\ UNCHANGED <<users, products, categories, session, pending, now, loggedOut>>
    ELSE IF \E u \in Range(users) : u.username = username \/ u.email = email
    THEN /\ resp' = Response(NONE, "register", "POST", "302:register", "taken", <<>>, {})
         /\ UNCHANGED <<users, products, categories, session, pending, now, loggedOut>>
    ELSE /\ Cardinality(pending) < MaxPending
         /\ Len(users) + Cardinality(pending) < MaxUsers
         /\ pending' = pending \cup
                {[username |-> username, email |-> email,
                  password |-> GeneratePasswordHash(salt, password)]}
         /\ resp' = Response(NONE, "register", "POST", "pending", NONE, <<>>, {})
         /\ UNCHANGED <<users, products, categories, session, now, loggedOut>>

\* fault: a registered user is made an administrator
NewUserAdmin(id, p) == UserRow(id, p.username, p.email, p.password, TRUE)

\* new_user = User(...): is_admin is left to its default, False
NewUser(id, p) == UserRow(id, p.username, p.email, p.password, FALSE)

\* lines 191-195: db.session.add, commit, and the redirect; a constraint
\* violation at the commit is unhandled and ends in the 500 page
RegisterCommit(p) ==
    LET row == NewUser(Len(users) + 1, p)
    IN
    /\ pending' = pending \ {p}
    /\ IF UserConstraintsOK(users, row)
       THEN /\ users' = Append(users, row)
            /\ resp' = Response(NONE, "register", "POST", "302:login", "created", <<>>, {})
       ELSE /\ users' = users
            /\ resp' = Response(NONE, "register", "POST", "500", NONE, <<>>, {})
    /\ UNCHANGED <<products, categories, session, now, loggedOut>>

----------------------------------------------------------------------------
(* login, logout *)

LoginGet(c) ==
    /\ resp' = Response(c, "login", "GET", "200", NONE, <<>>, {})
    /\ UNCHANGED <<users, products, categories, session, pending, now, loggedOut>>

Login(c, email, password) ==
    LET user == FirstByEmail(users, email)
    IN
    IF user # <<>> /\ CheckPasswordHash(user[1].password, password)
    THEN /\ session' = [session EXCEPT ![c] = Put(@, "user_id", user[1].id)]
         /\ users' = [users EXCEPT ![user[1].id].last_login = Some(now)]
         /\ loggedOut' = loggedOut \ {c}
         /\ resp' = Response(c, "login", "POST",
                             IF user[1].is_admin THEN "302:admin_dashboard" ELSE "302:index",
                             NONE, <<>>, {})
         /\ UNCHANGED <<products, categories, pending, now>>
    ELSE /\ resp' = Response(c, "login", "POST", "200", "invalid", <<>>, {})
         /\ UNCHANGED <<users, products, categories, session, pending, now, loggedOut>>

\* fault: only the cart is dropped
LogoutKeepUser(sess) == Pop(sess, "cart")

\* session.pop('user_id', None); session.pop('cart', None)
LogoutSession(sess) == Pop(Pop(sess, "user_id"), "cart")

Logout(c) ==
    /\ session' = [session EXCEPT ![c] = LogoutSession(@)]
    /\ loggedOut' = loggedOut \cup {c}
    /\ resp' = Response(c, "logout", "GET", "302:index", NONE, <<>>, {})
    /\ UNCHANGED <<users, products, categories, pending, now>>

----------------------------------------------------------------------------
(* the admin routes *)

\* fault: the is_admin flag is not looked at
AdminGuardNoFlag(sess, table) ==
    IF "user_id" \notin DOMAIN sess THEN "302:login"
    ELSE IF GetUser(table, sess["user_id"]) = <<>> THEN "302:index" ELSE "ok"

\* the check each admin route starts with: "302:login", "302:index" or "ok"
AdminGuard(sess, table) ==
    IF "user_id" \notin DOMAIN sess THEN "302:login"
    ELSE LET user == GetUser(table, sess["user_id"])
         IN  IF user = <<>> \/ ~user[1].is_admin THEN "302:index" ELSE "ok"

GuardFlash(g) == IF g = "302:index" THEN "denied" ELSE NONE

AdminDashboard(c) ==
    LET g == AdminGuard(session[c], users)
    IN  /\ resp' = Response(c, "admin_dashboard", "GET", IF g = "ok" THEN "200" ELSE g,
                            GuardFlash(g), <<>>, {})
        /\ UNCHANGED <<users, products, categories, session, pending, now, loggedOut>>

\* fault: the listing filters on is_active
AdminListActive(table, ord) == Ids(SelectSeq(Scan(table, ord), LAMBDA p : p.is_active))

\* Product.query.all()
AdminList(table, ord) == Ids(Scan(table, ord))

AdminProducts(c, ord) ==
    LET g == AdminGuard(session[c], users)
    IN  /\ resp' = IF g = "ok"
                   THEN Response(c, "admin_products", "GET", "200", NONE, AdminList(products, ord), {})
                   ELSE Response(c, "admin_products", "GET", g, GuardFlash(g), <<>>, {})
        /\ UNCHANGED <<users, products, categories, session, pending, now, loggedOut>>

AdminAddProduct(c, method, form, enforce) ==
    LET g   == AdminGuard(session[c], users)
        row == ProductRow(Len(products) + 1, form, now)
    IN
    IF g # "ok"
    THEN /\ resp' = Response(c, "admin_add_product", method, g, GuardFlash(g), <<>>, {})
         /\ UNCHANGED <<users, products, categories, session, pending, now, loggedOut>>
    ELSE IF method = "POST"
    THEN /\ Len(products) - Preloaded(products) < MaxAdd
         /\ IF ProductConstraintsOK(row, categories, enforce)
            THEN /\ products' = Append(products, row)
                 /\ resp' = Response(c, "admin_add_product", "POST", "302:admin_products",
                                     "added", <<>>, {})
            ELSE /\ products' = products
                 /\ resp' = Response(c, "admin_add_product", "POST", "500", NONE, <<>>, {})
         /\ UNCHANGED <<users, categories, session, pending, now, loggedOut>>
    ELSE /\ resp' = Response(c, "admin_add_product", "GET", "200", NONE, <<>>, categories)
         /\ UNCHANGED <<users, products, categories, session, pending, now, loggedOut>>

----------------------------------------------------------------------------
(* the catalog routes *)

\* fault: the ORDER BY is missing
FeaturedOldest(table, ord) ==
    Ids(Limit(SelectSeq(table, LAMBDA p : p.is_active), FeaturedLimit))

\* index(): the featured products and every category
Featured(table, ord) ==
    Ids(Limit(ByCreatedDesc({p \in Range(table) : p.is_active}, ord), FeaturedLimit))

Index(ord) ==
    /\ resp' = Response(NONE, "index", "GET", "200", NONE, Featured(products, ord), categories)
    /\ UNCHANGED <<users, products, categories, session, pending, now, loggedOut>>

\* products(): <<>> for not found, else <<the ids of the page>>
ProductsPage(table, cats, categoryArg, pageArg, ord) ==
    LET category_id == ToInt(categoryArg)
        page == IF ToInt(pageArg) = Null THEN 1 ELSE ToInt(pageArg)[1]
    IN
    IF category_id # Null /\ category_id[1] # 0
    THEN LET pg == Paginate(SelectSeq(Scan(table, ord), LAMBDA p :
                                         p.is_active /\ p.category_id = category_id),
                            page, PerPage)
         IN  IF ~pg.found THEN <<>>
             ELSE IF category_id[1] \notin cats THEN <<>>
             ELSE <<Ids(pg.items)>>
    ELSE LET pg == Paginate(SelectSeq(Scan(table, ord), LAMBDA p : p.is_active),
                            page, PerPage)
         IN  IF ~pg.found THEN <<>> ELSE <<Ids(pg.items)>>

Products(categoryArg, pageArg, ord) ==
    LET r == ProductsPage(products, categories, categoryArg, pageArg, ord)
    IN  /\ resp' = IF r = <<>> THEN Response(NONE, "products", "GET", "404", NONE, <<>>, {})
                   ELSE Response(NONE, "products", "GET", "200", NONE, r[1], {})
        /\ UNCHANGED <<users, products, categories, session, pending, now, loggedOut>>

\* fault: the category filter is missing
RelatedAnyCategory(table, product, ord) ==
    Ids(Limit(SelectSeq(Scan(table, ord), LAMBDA p : p.id # product.id /\ p.is_active),
              RelatedLimit))

\* the related products of product_detail()
Related(table, product, ord) ==
    Ids(Limit(SelectSeq(Scan(table, ord), LAMBDA p : /\ p.category_id = product.category_id
                                                     /\ p.id # product.id
                                                     /\ p.is_active), RelatedLimit))

ProductDetail(product_id, ord) ==
    /\ resp' = IF product_id \in DOMAIN products
               THEN Response(NONE, "product_detail", "GET", "200", NONE,
                             <<product_id>> \o Related(products, products[product_id], ord), {})
               ELSE Response(NONE, "product_detail", "GET", "404", NONE, <<>>, {})
    /\ UNCHANGED <<users, products, categories, session, pending, now, loggedOut>>

----------------------------------------------------------------------------
(* The inputs of the requests, and the three specifications *)

\* the passwords tried at login: the two in use, and every stored hash
LoginPasswords == {<<"pw1">>, <<"admin123">>} \cup {u.password : u \in Range(users)}

Orders == {"asc", "desc"}

SmallForms ==
    [name : {"card"}, price : {"10"}, category_id : {"1"}, is_active : {"on"}]

Forms ==
    [name : {"card", NONE}, price : {"10"}, category_id : {"1", "9", NONE},
     is_active : {"on", NONE}]

\* whether the database enforces the foreign key is left open where it matters
Enforcing(f) ==
    IF ToInt(f.category_id) = Null \/ ToInt(f.category_id)[1] \in categories
    THEN {FALSE} ELSE BOOLEAN

\* the ids asked of product_detail: the first and the last rows and the
\* absent ids around them
ProductIds(table) == {0, 1, Len(table) - 1, Len(table), Len(table) + 1} \cap Nat

CategoryArgs == {NONE, "0", "1", "2", "9"}
PageArgs == {NONE, "0", "2"}

\* startup, registration and login
Next ==
    \/ Restart
    \/ RegisterGet
    \/ \E un \in Usernames, em \in Emails, cf \in RawPasswords :
          \E salt \in (IF cf = <<"pw1">> THEN Salts ELSE {"s1"}) :
              RegisterCheck(un, em, <<"pw1">>, cf, salt)
    \/ \E p \in pending : RegisterCommit(p)
    \/ \E c \in {"c1"}, em \in Emails, pw \in LoginPasswords : Login(c, em, pw)
    \/ \E c \in {"c1"} : AdminDashboard(c)

Spec == Init /\ [][Next]_vars

\* sessions and the guard of the admin routes
NextSession ==
    \/ \E c \in Clients : LoginGet(c)
    \/ \E c \in Clients, em \in Emails \cup {NONE}, pw \in LoginPasswords \cup RawPasswords :
          Login(c, em, pw)
    \/ \E c \in Clients : Logout(c)
    \/ \E c \in Clients : AdminDashboard(c)
    \/ \E c \in Clients, ord \in Orders : AdminProducts(c, ord)
    \/ \E c \in Clients, f \in SmallForms : AdminAddProduct(c, "GET", f, FALSE)
    \/ \E c \in Clients, f \in SmallForms : AdminAddProduct(c, "POST", f, FALSE)

SpecSession == InitSession /\ [][NextSession]_vars

\* the catalog and the administrator's product management
NextCatalog ==
    \/ Tick
    \/ \E c \in {"c1"}, pw \in {<<"admin123">>, <<"pw1">>} : Login(c, "admin@example.com", pw)
    \/ \E c \in {"c1"}, ord \in Orders : AdminProducts(c, ord)
    \/ \E c \in {"c1"}, f \in SmallForms : AdminAddProduct(c, "GET", f, FALSE)
    \/ \E c \in {"c1"}, f \in Forms : \E enforce \in Enforcing(f) :
          AdminAddProduct(c, "POST", f, enforce)
    \/ \E ord \in Orders : Index(ord)
    \/ \E ca \in CategoryArgs, pa \in PageArgs, ord \in Orders : Products(ca, pa, ord)
    \/ \E id \in ProductIds(products), ord \in Orders : ProductDetail(id, ord)

SpecCatalog == InitCatalog /\ [][NextCatalog]_vars

----------------------------------------------------------------------------
(* The claims *)

AdminRoutes == {"admin_dashboard", "admin_products", "admin_add_product"}

\* the step answers a request of client c to an admin route
AnyAdminRoute(c) == resp'.route \in AdminRoutes /\ resp'.client = c

NoSession(c) == "user_id" \notin DOMAIN session[c]

NotAnAdmin(c) ==
    /\ "user_id" \in DOMAIN session[c]
    /\ \/ session[c]["user_id"] \notin DOMAIN users
       \/ ~users[session[c]["user_id"]].is_admin

\* C1: a request to an admin route from a session without user_id is
\* redirected to login, one from a session whose user_id names no user or a
\* user who is not an administrator is redirected to the home page, and in
\* neither case is a page rendered or a Product row inserted.
C1_AdminRoutesGuarded ==
    [][\A c \in Clients : AnyAdminRoute(c) =>
          /\ NoSession(c) => resp'.status = "302:login"
          /\ NotAnAdmin(c) => resp'.status = "302:index" /\ resp'.flash = "denied"
          /\ (NoSession(c) \/ NotAnAdmin(c)) =>
                /\ products' = products
                /\ resp'.items = <<>> /\ resp'.cats = {}]_vars

\* a logged-in user who is no administrator posts to add_product
C1_Witness ==
    /\ resp.route = "admin_add_product" /\ resp.method = "POST"
    /\ resp.status = "302:index"
    /\ \E c \in Clients : NotAnAdmin(c)

\* C2: no two rows of the User table share a username, and no two share an
\* email, in every state reachable by registrations, logins and restarts in
\* any interleaving.
C2_UsersUnique ==
    \A i, j \in DOMAIN users :
        i # j => users[i].username # users[j].username /\ users[i].email # users[j].email

\* a registration that passed its lookup is about to commit although a row
\* with its username or email was committed meanwhile
C2_Witness ==
    /\ Len(users) >= 2
    /\ \E p \in pending : \E u \in Range(users) :
          u.id > 1 /\ (u.username = p.username \/ u.email = p.email)

\* C3: a register POST (all its fields submitted) answers with a flashed
\* rejection and leaves the User table unchanged when the passwords differ or
\* a user with the username or email exists; otherwise it adds exactly one
\* row with the submitted username and email and a hashed password and
\* redirects to login.
C3_RegisterOutcome ==
    [][/\ \A un \in Usernames \ {NONE}, em \in Emails, cf \in RawPasswords, salt \in Salts :
            (RegisterCheck(un, em, <<"pw1">>, cf, salt) /\ resp'.status # "pending") =>
                /\ resp'.status = "302:register"
                /\ resp'.flash \in {"mismatch", "taken"}
                /\ users' = users
                /\ \/ cf # <<"pw1">>
                   \/ \E u \in Range(users) : u.username = un \/ u.email = em
       /\ \A p \in pending : (RegisterCommit(p) /\ p.username # NONE) =>
            IF \E u \in Range(users) : u.username = p.username \/ u.email = p.email
            THEN /\ resp'.status = "302:register" /\ resp'.flash = "taken"
                 /\ users' = users
            ELSE /\ resp'.status = "302:login"
                 /\ Len(users') = Len(users) + 1
                 /\ SubSeq(users', 1, Len(users)) = users
                 /\ users'[Len(users')].username = p.username
                 /\ users'[Len(users')].email = p.email
                 /\ \E salt \in Salts :
                       users'[Len(users')].password = GeneratePasswordHash(salt, <<"pw1">>)]_vars

C5_LogoutClears ==
    [][\A c \in Clients :
          /\ Logout(c) =>
                /\ session'[c] = EmptySession
                /\ users' = users /\ products' = products /\ categories' = categories
          /\ (c \in loggedOut /\ AnyAdminRoute(c)) => resp'.status = "302:login"]_vars

\* the administrator, the only user who ever logged in, asks for an admin
\* route after logging out
C5_Witness ==
    /\ resp.route = "admin_dashboard" /\ resp.status = "302:login"
    /\ loggedOut # {}
    /\ users[1].last_login # Null
    /\ \A i \in DOMAIN users : i > 1 => users[i].last_login = Null

SeededOnly ==
    /\ \A u \in Range(users) : u.is_admin <=> u.email = "admin@example.com"
    /\ Cardinality({u \in Range(users) : u.is_admin}) = 1
    /\ \A c \in Clients :
          ("user_id" \in DOMAIN session[c] /\ resp.route = "admin_dashboard"
              /\ resp.client = c /\ resp.status = "200") =>
             users[session[c]["user_id"]].email = "admin@example.com"

\* C10: the only administrator is the seeded account admin@example.com;
\* register creates no administrator, no step changes a user's is_admin flag,
\* a session that passes the admin check holds the seeded account's id, and a
\* restart adds no row.
C10_OnlySeededAdmin ==
    /\ SeededOnly
    /\ [][/\ SeededOnly'
          /\ \A i \in DOMAIN users :
                i \in DOMAIN users' /\ users'[i].is_admin = users[i].is_admin
          /\ Restart => users' = users]_vars

\* a restart on a database that holds registered users, with the
\* administrator's session alive
C10_Witness ==
    /\ resp = Started
    /\ Len(users) = 3
    /\ \E c \in Clients : "user_id" \in DOMAIN session[c] /\ session[c]["user_id"] = 1

ItemSet(r) == {r.items[i] : i \in DOMAIN r.items}

\* C6: an add_product POST that completes adds exactly one Product row, with
\* the submitted active flag, and changes no other row; no step removes or
\* changes a Product row; and a listing by admin_products holds every Product
\* row, active or not - so every listing after the POST holds the new product.
C6_AdminListsAll ==
    [][/\ (resp'.route = "admin_products" /\ resp'.status = "200") =>
             /\ ItemSet(resp') = DOMAIN products'
             /\ Len(resp'.items) = Len(products')
       /\ \A i \in DOMAIN products : i \in DOMAIN products' /\ products'[i] = products[i]
       /\ (resp'.route = "admin_add_product" /\ resp'.status = "302:admin_products"
              /\ products' # products) =>
             /\ Len(products') = Len(products) + 1
             /\ products'[Len(products')].id = Len(products')
       /\ products' # products => resp'.status = "302:admin_products"
       /\ \A c \in Clients, f \in Forms, enforce \in BOOLEAN :
             (resp'.route = "admin_add_product" /\ products' # products
                 /\ AdminAddProduct(c, "POST", f, enforce)) =>
                products'[Len(products')].is_active = (f.is_active = "on")]_vars

\* a listing that holds an inactive product added after startup
C6_Witness ==
    /\ resp.route = "admin_products" /\ resp.status = "200"
    /\ \E i \in ItemSet(resp) : ~products[i].is_active /\ products[i].created_at >= StartTime

\* C7: the products listing is not found for every supplied category id that
\* names no Category, the id 0 included, whatever the page; a page that is
\* returned holds only active products, of the category when one is supplied,
\* and at most 12 of them.
C7_ProductsListing ==
    [][\A ca \in CategoryArgs, pa \in PageArgs, ord \in Orders :
          (resp'.route = "products" /\ Products(ca, pa, ord)) =>
             /\ (ToInt(ca) # Null /\ ToInt(ca)[1] \notin categories) => resp'.status = "404"
             /\ resp'.status = "200" =>
                   /\ Len(resp'.items) <= 12
                   /\ \A i \in ItemSet(resp') :
                         /\ products[i].is_active
                         /\ ToInt(ca) # Null => products[i].category_id = ToInt(ca)]_vars

\* C8: product_detail is not found when no Product has the id; otherwise it
\* returns the product and at most 4 related products, each active, of the
\* product's category and not the product itself, and at least one whenever
\* another active product shares the category.
C8_ProductDetail ==
    [][\A id \in ProductIds(products), ord \in Orders :
          (resp'.route = "product_detail" /\ ProductDetail(id, ord)) =>
             IF id \notin DOMAIN products THEN resp'.status = "404"
             ELSE LET related == Tail(resp'.items)
                      others  == {p \in Range(products) :
                                     /\ p.id # id /\ p.is_active
                                     /\ p.category_id = products[id].category_id}
                  IN  /\ resp'.status = "200"
                      /\ Head(resp'.items) = id
                      /\ Len(related) <= 4
                      /\ \A i \in DOMAIN related : related[i] \in {p.id : p \in others}
                      /\ others # {} => related # <<>>]_vars

\* the related list is cut at 4 and an active product of another category
\* is left out of it
C8_Witness ==
    /\ resp.route = "product_detail" /\ resp.status = "200"
    /\ Len(resp.items) = 5
    /\ \E p \in Range(products) :
          /\ p.is_active /\ p.id # resp.items[1]
          /\ p.category_id # products[resp.items[1]].category_id

\* C9: the featured list of the home page holds only active products, at
\* most 8, in descending order of creation time, no active product outside
\* it was created later than one inside it, and the page carries every
\* Category row.
C9_Featured ==
    (resp.route = "index") =>
        /\ resp.status = "200"
        /\ resp.cats = categories
        /\ Len(resp.items) <= 8
        /\ \A i \in DOMAIN resp.items :
              resp.items[i] \in DOMAIN products /\ products[resp.items[i]].is_active
        /\ \A i, j \in DOMAIN resp.items :
              i < j => products[resp.items[i]].created_at >= products[resp.items[j]].created_at
        /\ \A p \in Range(products) : \A i \in ItemSet(resp) :
              (p.is_active /\ p.id \notin ItemSet(resp)) =>
                  p.created_at <= products[i].created_at

\* the list is cut at 8 and led by a product added after startup
C9_Witness ==
    /\ resp.route = "index"
    /\ Len(resp.items) = 8
    /\ products[resp.items[1]].created_at >= StartTime
    /\ \E p \in Range(products) : p.is_active /\ p.id \notin ItemSet(resp)

====
